---- MODULE Spec2Model ----
(***************************************************************************)
(* Model of the trending-repository ingestion pipeline (dbUpdater), the    *)
(* bookmark mutations of the GraphQL layer and the founder extraction of   *)
(* the GitHub metadata client of truffle-ai-backend.                       *)
(***************************************************************************)
EXTENDS Integers, Sequences, FiniteSets, TLC

(* ---------------------------------------------------------------------- *)
(* Values                                                                  *)
(* ---------------------------------------------------------------------- *)

\* SQL NULL / JavaScript null, and JavaScript undefined (an array read past its end)
Null == "null"
Undefined == "undefined"
\* a null id column or a null id result (ids are positive)
NoID == 0

\* The three trending flags of a project row (type TrendingState)
TrendingStates == {"is_trending_daily", "is_trending_weekly", "is_trending_monthly"}

(* ---------------------------------------------------------------------- *)
(* Bounds of the model                                                     *)
(* ---------------------------------------------------------------------- *)

\* longest trending list, in (owner, name) pairs, that the scraper returns
MaxListLen == 3
\* number of dbUpdater runs explored
MaxRuns == 2
\* the clock advances in steps of TickMinutes, at most MaxTicks times
MaxTicks == 3
TickMinutes == 2880

(* ---------------------------------------------------------------------- *)
(* GitHub, as seen through the API clients                                 *)
(* ---------------------------------------------------------------------- *)

\* logins GitHub knows as organizations and as users; the user query returns nothing
\* for any other login, also for that of a commit author (ben)
OrgLogins == {"acme"}
UserLogins == {"bob", "ann"}
\* repositories GitHub knows, as (owner, name)
GitHubRepos == {<<"acme", "app">>, <<"bob", "app">>}

\* GitHub looks a login up without regard to case and returns it as registered
Canonical(login) ==
  CASE login = "Acme" -> "acme"
    [] login = "Bob" -> "bob"
    [] OTHER -> login

\* organization(login: owner) { login }: the login of the organization, or null
getOrganizationInfo(owner) ==
  IF Canonical(owner) \in OrgLogins THEN Canonical(owner) ELSE Null
\* user(login: owner) { login }: the login of the user, or null
getUserInfo(owner) ==
  IF Canonical(owner) \in UserLogins THEN Canonical(owner) ELSE Null
\* repository(owner, name): whether GitHub returns data for the repository
getGithubData(name, owner) == <<owner, name>> \in GitHubRepos

RECURSIVE Flatten(_)
\* [owner1, repo1, owner2, repo2, ...] of a sequence of (owner, repo) pairs
Flatten(ps) ==
  IF ps = << >> THEN << >>
  ELSE <<Head(ps)[1], Head(ps)[2]>> \o Flatten(Tail(ps))

PairLists == UNION {[1..n -> GitHubRepos] : n \in 0..MaxListLen}

\* what fetchTrendingRepos can return: owner and name alternating
fetchTrendingRepos == {Flatten(ps) : ps \in PairLists}

(* ---------------------------------------------------------------------- *)
(* State                                                                   *)
(* ---------------------------------------------------------------------- *)

VARIABLES
  project,            \* table project: set of rows
  organization,       \* table organization: set of rows [id, login]
  associated_person,  \* table associated_person: set of rows [id, login]
  now,                \* the clock, in minutes
  ticks,              \* how often the clock has advanced
  pc,                 \* where dbUpdater is
  repos,              \* the list goThroughListOfRepos is given
  i,                  \* its loop index
  runs,               \* dbUpdater runs started
  calls,              \* history: calls goThroughListOfRepos made for the current list
  setInRun,           \* history: <<owner, name, flag>> set to true in the current run
  purgedSome,         \* history: whether the purge of the current run cleared a flag
  deleted,            \* history: rows removed by the last stale-record purge
  deleteFailed,       \* history: whether the last stale-record delete returned an error
  bookmark,           \* table bookmark: sequence of rows [user_id, project_id, category]
  request,            \* the last mutation the GraphQL layer received
  response,           \* what the resolver returned for it
  dbCalls,            \* history: the data-access functions the resolver called for it
  history,            \* commit authors of the default branch of a repository, newest first
  args,               \* the arguments of a call of getRepoFounders
  founders,           \* what the call returned
  founded_by,         \* table founded_by: sequence of rows [founder_id, project_id]
  lastCall,           \* the last call of a data-aggregation function, with its result
  nCalls,             \* how many such calls were made
  procs               \* the concurrent invocations of the pipeline: where each one is

updaterVars == <<project, organization, associated_person, now, ticks, pc, repos, i,
                 runs, calls, setInRun, purgedSome, deleted, deleteFailed>>

bookmarkVars == <<bookmark, request, response, dbCalls>>

founderVars == <<history, args, founders>>

\* the part of the state of dbUpdater that is not a table
runVars == <<now, ticks, pc, repos, i, runs, calls, setInRun, purgedSome, deleted,
             deleteFailed>>

dataVars == <<founded_by, lastCall, nCalls>>

vars == <<updaterVars, bookmarkVars, founderVars, dataVars, procs>>

(* ---------------------------------------------------------------------- *)
(* Data access                                                             *)
(* ---------------------------------------------------------------------- *)

Min(S) == CHOOSE n \in S : \A m \in S : n <= m

\* a primary key not used in the table
FreshID(rows) ==
  Min({n \in 1..(Cardinality(rows) + 1) : \A r \in rows : r.id # n})

\* data?.[0]?.id of a select that returned rows
FirstID(rows) == IF rows = {} THEN NoID ELSE Min({r.id : r \in rows})

\* data?.[0]?.login of a select: undefined when no row was returned
FirstLogin(rows) ==
  IF rows = {} THEN Undefined
  ELSE (CHOOSE r \in rows : r.id = Min({x.id : x \in rows})).login

\* getOrganizationID: the id of the organization row with login = owner; when there is
\* none, the organization GitHub returns is inserted and the row is read back by login.
\* Yields the table after the call, the id (or NoID) and whether GitHub was queried.
getOrganizationID(org, owner) ==
  LET existing == {r \in org : r.login = owner} IN
  IF existing # {} THEN [table |-> org, id |-> FirstID(existing), github |-> FALSE]
  ELSE LET organizationGHData == getOrganizationInfo(owner) IN
       IF organizationGHData = Null THEN [table |-> org, id |-> NoID, github |-> TRUE]
       ELSE LET inserted == org \cup {[id |-> FreshID(org), login |-> organizationGHData]}
                orga == {r \in inserted : r.login = owner}
            IN [table |-> inserted, id |-> FirstID(orga), github |-> TRUE]

\* getPersonID: the same for associated_person and GitHub users
getPersonID(pers, owner) ==
  LET existingPerson == {r \in pers : r.login = owner} IN
  IF existingPerson # {}
  THEN [table |-> pers, id |-> FirstID(existingPerson), github |-> FALSE]
  ELSE LET userGHData == getUserInfo(owner) IN
       IF userGHData = Null THEN [table |-> pers, id |-> NoID, github |-> TRUE]
       ELSE LET inserted == pers \cup {[id |-> FreshID(pers), login |-> userGHData]}
                person == {r \in inserted : r.login = owner}
            IN [table |-> inserted, id |-> FirstID(person), github |-> TRUE]

\* repoIsAlreadyInDB with the owner check only for rows owned by an organization
repoIsAlreadyInDBOrgOnly(proj, org, pers, name, owner, queryOk, ownerOk) ==
  /\ queryOk /\ ownerOk
  /\ \E repo \in {r \in proj : r.name = name} :
       /\ repo.owning_organization # NoID
       /\ \E o \in org : o.id = repo.owning_organization /\ o.login = owner

\* repoIsAlreadyInDB without the comparison of the owner's login
repoIsAlreadyInDBNameOnly(proj, org, pers, name, owner, queryOk, ownerOk) ==
  queryOk /\ \E repo \in proj : repo.name = name

\* repoIsAlreadyInDB: queryOk is whether the select of the projects of that name
\* returned data (matchingRepos is not null), ownerOk whether the selects of the owners
\* returned data (owning_organization?.[0] is undefined when they did not)
repoIsAlreadyInDB(proj, org, pers, name, owner, queryOk, ownerOk) ==
  IF ~queryOk THEN FALSE
  ELSE \E repo \in {r \in proj : r.name = name} :
         IF repo.owning_organization # NoID
         THEN FirstLogin(IF ownerOk THEN {o \in org : o.id = repo.owning_organization}
                         ELSE {}) = owner
         ELSE FirstLogin(IF ownerOk THEN {p \in pers : p.id = repo.owning_person}
                         ELSE {}) = owner

\* the login of the owner of a project row: the owning organization's when
\* owning_organization is set, else the owning person's; Null if there is none
OwnerLogin(repo, org, pers) ==
  LET owners == IF repo.owning_organization # NoID
                THEN {o \in org : o.id = repo.owning_organization}
                ELSE {p \in pers : p.id = repo.owning_person}
  IN IF owners = {} THEN Null ELSE (CHOOSE o \in owners : TRUE).login

\* updateSupabaseProject(name, owner, {[trendingState]: true})
updateSupabaseProject(proj, org, pers, name, owner, trendingState) ==
  {IF r.name = name /\ OwnerLogin(r, org, pers) = owner
   THEN [r EXCEPT ![trendingState] = TRUE] ELSE r : r \in proj}

\* updateProjectTrendingState: the project table after the call
updateProjectTrendingState(proj, org, pers, name, owner, trendingState) ==
  IF trendingState = Null THEN proj
  ELSE IF ~repoIsAlreadyInDB(proj, org, pers, name, owner, TRUE, TRUE) THEN proj
  ELSE updateSupabaseProject(proj, org, pers, name, owner, trendingState)

\* insertProject(name, owner): the three tables after the call. The row belongs to the
\* organization, else to the person; nothing is inserted for a repository GitHub has
\* no data for. New rows are not bookmarked and carry no trending flag.
insertProject(proj, org, pers, name, owner, time) ==
  IF ~getGithubData(name, owner)
  THEN [project |-> proj, organization |-> org, associated_person |-> pers]
  ELSE LET o == getOrganizationID(org, owner)
           p == IF o.id = NoID THEN getPersonID(pers, owner)
                ELSE [table |-> pers, id |-> NoID, github |-> FALSE]
           row == [id |-> FreshID(proj), name |-> name,
                   owning_organization |-> o.id, owning_person |-> p.id,
                   is_trending_daily |-> FALSE, is_trending_weekly |-> FALSE,
                   is_trending_monthly |-> FALSE, is_bookmarked |-> FALSE,
                   created_at |-> time]
       IN [project |-> proj \cup {row}, organization |-> o.table,
           associated_person |-> p.table]

\* purgeTrendingState with only the daily flag cleared
purgeTrendingStateDailyOnly(proj) ==
  {[r EXCEPT !.is_trending_daily = FALSE] : r \in proj}

\* purgeTrendingState: update of every row, no filter
purgeTrendingState(proj) ==
  {[r EXCEPT !.is_trending_daily = FALSE, !.is_trending_weekly = FALSE,
             !.is_trending_monthly = FALSE] : r \in proj}

\* getCutOffTime(hours, minutes): the clock minus the hours and the minutes
getCutOffTime(time, hours, minutes) == (time - hours * 60) - minutes

(* ---------------------------------------------------------------------- *)
(* Bookmarks                                                               *)
(* ---------------------------------------------------------------------- *)

\* users a request context can carry, project ids and categories a client can send
Users == {"u1", "u2"}
ProjectIDs == {"p1", "p2"}
Categories == {"c1", "c2"}

NoRequest == [op |-> "none"]

BAD_USER_RESPONSE ==
  [message |-> "The graphQL resolver did not receive a valid user.", code |-> "400",
   hint |-> "Are you loggedIn?"]

BOOKMARK_DOES_NOT_EXIST_RESPONSE ==
  [message |-> "This bookmark does not exist on the database.", code |-> "409"]

\* the error object a failed write of the datastore yields
PostgrestError == [message |-> "error", code |-> "PGRST"]

\* bookmarkIsAlreadyInDB(userID, projectID)
bookmarkIsAlreadyInDB(bm, userID, projectID) ==
  \E k \in 1..Len(bm) : bm[k].user_id = userID /\ bm[k].project_id = projectID

\* insertBookmark(projectID, userID, category): the table after it; error is whether
\* the insert fails
insertBookmark(bm, projectID, userID, category, error) ==
  IF error THEN bm
  ELSE Append(bm, [user_id |-> userID, project_id |-> projectID, category |-> category])

\* deleteBookmark(userID, projectID)
deleteBookmark(bm, userID, projectID, error) ==
  LET Keep(row) == ~(row.user_id = userID /\ row.project_id = projectID)
  IN IF error THEN bm ELSE SelectSeq(bm, Keep)

\* editBookmarkCategory(userID, projectID, newCategory)
editBookmarkCategory(bm, userID, projectID, newCategory, error) ==
  IF error THEN bm
  ELSE [k \in 1..Len(bm) |->
          IF bm[k].user_id = userID /\ bm[k].project_id = projectID
          THEN [bm[k] EXCEPT !.category = newCategory] ELSE bm[k]]

\* renameBookmarkCategory(userID, oldCategory, newCategory)
renameBookmarkCategory(bm, userID, oldCategory, newCategory, error) ==
  IF error THEN bm
  ELSE [k \in 1..Len(bm) |->
          IF bm[k].user_id = userID /\ bm[k].category = oldCategory
          THEN [bm[k] EXCEPT !.category = newCategory] ELSE bm[k]]

\* addBookmark that inserts without asking bookmarkIsAlreadyInDB
addBookmarkNoCheck(bm, userID, projectID, category, error) ==
  [bookmark |-> insertBookmark(bm, projectID, userID, category, error),
   response |-> IF error THEN PostgrestError ELSE [code |-> "201"],
   dbCalls |-> <<"insertBookmark">>]

\* addBookmark(userID, projectID, category): the table, the response and the
\* data-access calls made
addBookmark(bm, userID, projectID, category, error) ==
  IF bookmarkIsAlreadyInDB(bm, userID, projectID)
  THEN [bookmark |-> bm,
        response |-> [message |-> "This bookmark is already in the database.",
                      code |-> "409"],
        dbCalls |-> <<"bookmarkIsAlreadyInDB">>]
  ELSE [bookmark |-> insertBookmark(bm, projectID, userID, category, error),
        response |-> IF error THEN PostgrestError ELSE [code |-> "201"],
        dbCalls |-> <<"bookmarkIsAlreadyInDB", "insertBookmark">>]

\* Mutation.addBookmark
MutationAddBookmark ==
  /\ UNCHANGED <<updaterVars, founderVars, dataVars, procs>>
  /\ \E user \in Users \cup {Null}, projectID \in ProjectIDs, category \in Categories,
        error \in BOOLEAN :
       /\ request' = [op |-> "addBookmark", user |-> user, projectID |-> projectID,
                      category |-> category, oldCategory |-> Null, error |-> error]
       /\ IF user = Null
          THEN /\ response' = BAD_USER_RESPONSE
               /\ dbCalls' = << >>
               /\ UNCHANGED bookmark
          ELSE LET r == addBookmark(bookmark, user, projectID, category, error)
               IN /\ response' = r.response
                  /\ dbCalls' = r.dbCalls
                  /\ bookmark' = r.bookmark

\* Mutation.deleteBookmark that deletes without asking bookmarkIsAlreadyInDB
MutationDeleteBookmarkNoExistCheck ==
  /\ UNCHANGED <<updaterVars, founderVars, dataVars, procs>>
  /\ \E user \in Users \cup {Null}, projectID \in ProjectIDs, error \in BOOLEAN :
       /\ request' = [op |-> "deleteBookmark", user |-> user, projectID |-> projectID,
                      category |-> Null, oldCategory |-> Null, error |-> error]
       /\ IF user = Null
          THEN /\ response' = BAD_USER_RESPONSE
               /\ dbCalls' = << >>
               /\ UNCHANGED bookmark
          ELSE /\ bookmark' = deleteBookmark(bookmark, user, projectID, error)
               /\ response' = IF error THEN PostgrestError ELSE [code |-> "204"]
               /\ dbCalls' = <<"deleteBookmark">>

\* Mutation.deleteBookmark
MutationDeleteBookmark ==
  /\ UNCHANGED <<updaterVars, founderVars, dataVars, procs>>
  /\ \E user \in Users \cup {Null}, projectID \in ProjectIDs, error \in BOOLEAN :
       /\ request' = [op |-> "deleteBookmark", user |-> user, projectID |-> projectID,
                      category |-> Null, oldCategory |-> Null, error |-> error]
       /\ IF user = Null
          THEN /\ response' = BAD_USER_RESPONSE
               /\ dbCalls' = << >>
               /\ UNCHANGED bookmark
          ELSE IF ~bookmarkIsAlreadyInDB(bookmark, user, projectID)
          THEN /\ response' = BOOKMARK_DOES_NOT_EXIST_RESPONSE
               /\ dbCalls' = <<"bookmarkIsAlreadyInDB">>
               /\ UNCHANGED bookmark
          ELSE /\ bookmark' = deleteBookmark(bookmark, user, projectID, error)
               /\ response' = IF error THEN PostgrestError ELSE [code |-> "204"]
               /\ dbCalls' = <<"bookmarkIsAlreadyInDB", "deleteBookmark">>

\* Mutation.editBookmarkCategory
MutationEditBookmarkCategory ==
  /\ UNCHANGED <<updaterVars, founderVars, dataVars, procs>>
  /\ \E user \in Users \cup {Null}, projectID \in ProjectIDs,
        newCategory \in Categories, error \in BOOLEAN :
       /\ request' = [op |-> "editBookmarkCategory", user |-> user,
                      projectID |-> projectID, category |-> newCategory,
                      oldCategory |-> Null, error |-> error]
       /\ IF user = Null
          THEN /\ response' = BAD_USER_RESPONSE
               /\ dbCalls' = << >>
               /\ UNCHANGED bookmark
          ELSE IF ~bookmarkIsAlreadyInDB(bookmark, user, projectID)
          THEN /\ response' = BOOKMARK_DOES_NOT_EXIST_RESPONSE
               /\ dbCalls' = <<"bookmarkIsAlreadyInDB">>
               /\ UNCHANGED bookmark
          ELSE /\ bookmark' = editBookmarkCategory(bookmark, user, projectID,
                                                   newCategory, error)
               /\ response' = IF error THEN PostgrestError ELSE [code |-> "204"]
               /\ dbCalls' = <<"bookmarkIsAlreadyInDB", "editBookmarkCategory">>

\* Mutation.renameBookmarkCategory without the check of context.user: the user id
\* of a missing user is undefined
MutationRenameBookmarkCategoryNoUserCheck ==
  /\ UNCHANGED <<updaterVars, founderVars, dataVars, procs>>
  /\ \E user \in Users \cup {Null}, oldCategory \in Categories,
        newCategory \in Categories, error \in BOOLEAN :
       /\ request' = [op |-> "renameBookmarkCategory", user |-> user,
                      projectID |-> Null, category |-> newCategory,
                      oldCategory |-> oldCategory, error |-> error]
       /\ bookmark' = renameBookmarkCategory(bookmark,
                         IF user = Null THEN Undefined ELSE user,
                         oldCategory, newCategory, error)
       /\ response' = IF error THEN PostgrestError ELSE [code |-> "204"]
       /\ dbCalls' = <<"renameBookmarkCategory">>

\* Mutation.renameBookmarkCategory
MutationRenameBookmarkCategory ==
  /\ UNCHANGED <<updaterVars, founderVars, dataVars, procs>>
  /\ \E user \in Users \cup {Null}, oldCategory \in Categories,
        newCategory \in Categories, error \in BOOLEAN :
       /\ request' = [op |-> "renameBookmarkCategory", user |-> user,
                      projectID |-> Null, category |-> newCategory,
                      oldCategory |-> oldCategory, error |-> error]
       /\ IF user = Null
          THEN /\ response' = BAD_USER_RESPONSE
               /\ dbCalls' = << >>
               /\ UNCHANGED bookmark
          ELSE /\ bookmark' = renameBookmarkCategory(bookmark, user, oldCategory,
                                                     newCategory, error)
               /\ response' = IF error THEN PostgrestError ELSE [code |-> "204"]
               /\ dbCalls' = <<"renameBookmarkCategory">>

NextBookmarks ==
  \/ MutationAddBookmark
  \/ MutationDeleteBookmark
  \/ MutationEditBookmarkCategory
  \/ MutationRenameBookmarkCategory

(* ---------------------------------------------------------------------- *)
(* Founders                                                                *)
(* ---------------------------------------------------------------------- *)

\* history(first: 5): the number of commits the query asks for
HistoryFirst == 5
\* longest commit history of a repository in the model
MaxCommits == 6

\* the users GitHub can return as author.user of a commit: a user may have no name and
\* no twitter handle. NoUser is the author of a commit that is linked to no account.
Ann == [login |-> "ann", name |-> "Ann", twitterUsername |-> Null]
Ben == [login |-> "ben", name |-> Null, twitterUsername |-> "ben_t"]
NoUser == [login |-> Null, name |-> Null, twitterUsername |-> Null]
CommitAuthors == {Ann, Ben, NoUser}

Histories == UNION {[1..n -> CommitAuthors] : n \in 0..MaxCommits}

NotCalled == [status |-> "none"]
Thrown(message) == [status |-> "threw", error |-> message]
Returned(value) == [status |-> "returned", value |-> value]

\* x ?? ''
OrEmpty(x) == IF x = Null THEN "" ELSE x

\* history.edges of the response: the first HistoryFirst commits of the default branch
HistoryEdges(hist) ==
  SubSeq(hist, 1, IF Len(hist) < HistoryFirst THEN Len(hist) ELSE HistoryFirst)

RECURSIVE distinctByName(_, _)
\* the forEach of getRepoFounders with the login looked up among the names
distinctByName(edges, distinctCommiters) ==
  IF edges = << >> THEN Returned(distinctCommiters)
  ELSE LET user == Head(edges) IN
       IF user = NoUser THEN Thrown("TypeError")
       ELSE IF \E k \in 1..Len(distinctCommiters) :
                  distinctCommiters[k].name = user.login
       THEN distinctByName(Tail(edges), distinctCommiters)
       ELSE distinctByName(Tail(edges),
              Append(distinctCommiters,
                     [name |-> OrEmpty(user.name), login |-> OrEmpty(user.login),
                      twitterUsername |-> OrEmpty(user.twitterUsername)]))

RECURSIVE distinctCommitersOf(_, _)
\* the forEach of getRepoFounders over the edges: a founder is pushed when no founder
\* with that login was pushed before; reading the login of a missing user throws
distinctCommitersOf(edges, distinctCommiters) ==
  IF edges = << >> THEN Returned(distinctCommiters)
  ELSE LET user == Head(edges) IN
       IF user = NoUser THEN Thrown("TypeError")
       ELSE IF \E k \in 1..Len(distinctCommiters) :
                  distinctCommiters[k].login = user.login
       THEN distinctCommitersOf(Tail(edges), distinctCommiters)
       ELSE distinctCommitersOf(Tail(edges),
              Append(distinctCommiters,
                     [name |-> OrEmpty(user.name), login |-> OrEmpty(user.login),
                      twitterUsername |-> OrEmpty(user.twitterUsername)]))

\* getRepoFounders(owner, name) for a repository with the commit history hist; a
\* repository without commits has no defaultBranchRef
getRepoFounders(owner, name, hist) ==
  IF owner = "" \/ name = ""
  THEN Thrown("Not able to fetch repository to get founders of the project")
  ELSE IF hist = << >> THEN Thrown("TypeError")
  ELSE distinctCommitersOf(HistoryEdges(hist), << >>)

\* the parts of the state a specification does not exercise
BookmarksAtRest ==
  bookmark = << >> /\ request = NoRequest /\ response = [code |-> "none"]
  /\ dbCalls = << >>

FoundersAtRest ==
  history = << >> /\ args = [owner |-> "", name |-> ""] /\ founders = NotCalled

NoCall == [fn |-> "none"]

DataAtRest == founded_by = << >> /\ lastCall = NoCall /\ nCalls = 0

\* no invocation of the pipeline is under way
Idle ==
  [pc |-> "idle", owner |-> "", name |-> "", trendingState |-> Null, inDB |-> FALSE]
ProcsAtRest == procs = <<Idle, Idle>>

UpdaterAtRest ==
  /\ project = {} /\ organization = {} /\ associated_person = {}
  /\ now = 0 /\ ticks = 0
  /\ pc = "idle" /\ repos = << >> /\ i = 0 /\ runs = 0
  /\ calls = << >> /\ setInRun = {} /\ purgedSome = FALSE /\ deleted = {}
  /\ deleteFailed = FALSE

InitFounders ==
  /\ UpdaterAtRest /\ BookmarksAtRest /\ DataAtRest /\ ProcsAtRest
  /\ history \in Histories
  /\ args \in [owner : {"", "acme"}, name : {"", "app"}]
  /\ founders = NotCalled

\* a call of getRepoFounders
callGetRepoFounders ==
  /\ founders = NotCalled
  /\ founders' = getRepoFounders(args.owner, args.name, history)
  /\ UNCHANGED <<history, args, updaterVars, bookmarkVars, dataVars, procs>>

NextFounders == callGetRepoFounders

(* ---------------------------------------------------------------------- *)
(* dbUpdater                                                               *)
(* ---------------------------------------------------------------------- *)

ListPhases == {"daily", "weekly", "monthly"}

\* the trending state dbUpdater passes with each list
TrendingStateOf(phase) ==
  CASE phase = "daily" -> "is_trending_daily"
    [] phase = "weekly" -> "is_trending_weekly"
    [] phase = "monthly" -> "is_trending_monthly"

\* the bound of the loop of goThroughListOfRepos
LoopBound == 2

\* repos[k], k counted from 0; undefined past the end of the list
At(list, k) == IF k + 1 <= Len(list) THEN list[k + 1] ELSE Undefined

\* hours after which a project that is not bookmarked is deleted
PurgeHours == 96

\* a project row as the datastore holds it before the first run of the model
OldRow(daily, bookmarked) ==
  [id |-> 1, name |-> "app", owning_organization |-> 1, owning_person |-> NoID,
   is_trending_daily |-> daily, is_trending_weekly |-> FALSE,
   is_trending_monthly |-> FALSE, is_bookmarked |-> bookmarked, created_at |-> 0]

\* the datastore is empty, or holds acme/app from an earlier run
InitUpdater ==
  /\ \/ project = {} /\ organization = {}
     \/ /\ \E d \in BOOLEAN, b \in BOOLEAN : project = {OldRow(d, b)}
        /\ organization = {[id |-> 1, login |-> "acme"]}
  /\ associated_person = {}
  /\ now = 0 /\ ticks = 0
  /\ pc = "idle" /\ repos = << >> /\ i = 0 /\ runs = 0
  /\ calls = << >> /\ setInRun = {} /\ purgedSome = FALSE /\ deleted = {} /\ deleteFailed = FALSE

\* time passes between two runs of dbUpdater
Tick ==
  /\ UNCHANGED <<bookmarkVars, founderVars, dataVars, procs>>
  /\ pc \in {"idle", "done"}
  /\ ticks < MaxTicks
  /\ ticks' = ticks + 1
  /\ now' = now + TickMinutes
  /\ UNCHANGED <<project, organization, associated_person, pc, repos, i, runs, calls,
                 setInRun, purgedSome, deleted, deleteFailed>>

\* dbUpdater, up to the first list: the trending states are purged and the daily
\* list is fetched
dbUpdater ==
  /\ UNCHANGED <<bookmarkVars, founderVars, dataVars, procs>>
  /\ pc \in {"idle", "done"}
  /\ runs < MaxRuns
  /\ runs' = runs + 1
  /\ project' = purgeTrendingState(project)
  /\ \E list \in fetchTrendingRepos : repos' = list
  /\ i' = 0 /\ calls' = << >> /\ setInRun' = {} /\ deleted' = {}
  /\ purgedSome' = (\E r \in project, f \in TrendingStates : r[f])
  /\ deleteFailed' = FALSE
  /\ pc' = "daily"
  /\ UNCHANGED <<organization, associated_person, now, ticks>>

\* goThroughListOfRepos without the else: insertProject is called in both branches
goThroughListOfReposNoElse ==
  /\ UNCHANGED <<bookmarkVars, founderVars, dataVars, procs>>
  /\ pc \in ListPhases
  /\ i < LoopBound
  /\ LET owner == At(repos, 2 * i)
         name == At(repos, 2 * i + 1)
         trendingState == TrendingStateOf(pc)
         inDB == repoIsAlreadyInDB(project, organization, associated_person,
                                   name, owner, TRUE, TRUE)
         updated == IF inDB
                    THEN updateProjectTrendingState(project, organization,
                           associated_person, name, owner, trendingState)
                    ELSE project
         after == insertProject(updated, organization, associated_person,
                                name, owner, now)
     IN /\ project' = after.project
        /\ organization' = after.organization
        /\ associated_person' = after.associated_person
        /\ calls' = Append(calls, [fn |-> IF inDB THEN "updateProjectTrendingState"
                                          ELSE "insertProject",
                                   name |-> name, owner |-> owner, inDB |-> inDB])
        /\ setInRun' = IF inDB THEN setInRun \cup {<<owner, name, trendingState>>}
                       ELSE setInRun
  /\ i' = i + 1
  /\ UNCHANGED <<now, ticks, pc, repos, runs, purgedSome, deleted, deleteFailed>>

\* one iteration of the loop of goThroughListOfRepos
goThroughListOfRepos ==
  /\ UNCHANGED <<bookmarkVars, founderVars, dataVars, procs>>
  /\ pc \in ListPhases
  /\ i < LoopBound
  /\ LET owner == At(repos, 2 * i)
         name == At(repos, 2 * i + 1)
         trendingState == TrendingStateOf(pc)
         inDB == repoIsAlreadyInDB(project, organization, associated_person,
                                   name, owner, TRUE, TRUE)
     IN IF inDB
        THEN /\ project' = updateProjectTrendingState(project, organization,
                              associated_person, name, owner, trendingState)
             /\ calls' = Append(calls, [fn |-> "updateProjectTrendingState",
                                        name |-> name, owner |-> owner, inDB |-> TRUE])
             /\ setInRun' = setInRun \cup {<<owner, name, trendingState>>}
             /\ UNCHANGED <<organization, associated_person>>
        ELSE LET after == insertProject(project, organization, associated_person,
                                        name, owner, now)
             IN /\ project' = after.project
                /\ organization' = after.organization
                /\ associated_person' = after.associated_person
                /\ calls' = Append(calls, [fn |-> "insertProject", name |-> name,
                                           owner |-> owner, inDB |-> FALSE])
                /\ UNCHANGED setInRun
  /\ i' = i + 1
  /\ UNCHANGED <<now, ticks, pc, repos, runs, purgedSome, deleted, deleteFailed>>

\* goThroughListOfRepos returns; dbUpdater fetches the next list or goes on to the
\* stale-record purge
nextList ==
  /\ UNCHANGED <<bookmarkVars, founderVars, dataVars, procs>>
  /\ pc \in ListPhases
  /\ i = LoopBound
  /\ \/ /\ pc \in {"daily", "weekly"}
        /\ pc' = IF pc = "daily" THEN "weekly" ELSE "monthly"
        /\ \E list \in fetchTrendingRepos : repos' = list
        /\ i' = 0 /\ calls' = << >>
     \/ /\ pc = "monthly"
        /\ pc' = "delete"
        /\ repos' = << >> /\ i' = 0 /\ calls' = << >>
  /\ UNCHANGED <<project, organization, associated_person, now, ticks, runs, setInRun,
                 purgedSome, deleted, deleteFailed>>

\* the delete of dbUpdater without the filter on is_bookmarked
staleProjectsAnyBookmark(proj, time) ==
  {r \in proj : r.created_at < getCutOffTime(time, PurgeHours, 0)}

\* the rows the delete of dbUpdater matches
staleProjects(proj, time) ==
  {r \in proj : r.is_bookmarked = FALSE
                /\ r.created_at < getCutOffTime(time, PurgeHours, 0)}

\* the rest of dbUpdater: the delete of the stale projects, which may return an error
\* that is logged, and the pass over the remaining projects (updateRepo does nothing)
deleteOldProjects ==
  /\ UNCHANGED <<bookmarkVars, founderVars, dataVars, procs>>
  /\ pc = "delete"
  /\ \E error \in BOOLEAN :
       /\ deleteFailed' = error
       /\ deleted' = IF error THEN {} ELSE staleProjects(project, now)
       /\ project' = IF error THEN project ELSE project \ staleProjects(project, now)
  /\ pc' = "done"
  /\ UNCHANGED <<organization, associated_person, now, ticks, repos, i, runs, calls,
                 setInRun, purgedSome>>

NextUpdater ==
  \/ Tick
  \/ dbUpdater
  \/ goThroughListOfRepos
  \/ nextList
  \/ deleteOldProjects

\* the ingestion pipeline: runs of dbUpdater, one after another
Init == InitUpdater /\ BookmarksAtRest /\ FoundersAtRest /\ DataAtRest /\ ProcsAtRest
Next == NextUpdater
Spec == Init /\ [][Next]_vars

(* ---------------------------------------------------------------------- *)
(* Properties of dbUpdater                                                 *)
(* ---------------------------------------------------------------------- *)

\* the rows of a repository, by name and login of the owner
RowsOf(owner, name) ==
  {r \in project : r.name = name
                   /\ OwnerLogin(r, organization, associated_person) = owner}

ExactlyOneBranch ==
  [][(pc \in ListPhases /\ i' = i + 1) =>
       LET owner == At(repos, 2 * i)
           name == At(repos, 2 * i + 1)
           inDB == repoIsAlreadyInDB(project, organization, associated_person,
                                     name, owner, TRUE, TRUE)
           call == calls'[Len(calls')]
       IN /\ Len(calls') = Len(calls) + 1
          /\ call.name = name /\ call.owner = owner
          /\ inDB => /\ call.fn = "updateProjectTrendingState"
                     /\ {r.id : r \in project'} = {r.id : r \in project}
                     /\ organization' = organization
                     /\ associated_person' = associated_person
          /\ ~inDB => /\ call.fn = "insertProject"
                      /\ project \subseteq project'
     ]_vars

\* C2 witness: in one list the same repo was first inserted and then found
ExactlyOneBranchWitness ==
  /\ pc \in ListPhases /\ Len(calls) = 2
  /\ calls[1].fn = "insertProject" /\ calls[2].fn = "updateProjectTrendingState"
  /\ calls[1].owner = calls[2].owner
  /\ RowsOf(calls[1].owner, calls[1].name) # {}

\* C3: from the purge on, a project has a trending flag only if this run set it for
\* a repo of the list of that flag; no flag of an earlier run survives
OnlyFlagsOfThisRun ==
  pc # "idle" =>
    \A r \in project, f \in TrendingStates :
       r[f] => <<OwnerLogin(r, organization, associated_person), r.name, f>> \in setInRun

\* C3 witness: a run is complete whose purge cleared a flag, and a row has the monthly
\* flag of this run and no daily flag
OnlyFlagsOfThisRunWitness ==
  /\ pc = "done"
  /\ purgedSome
  /\ \E r \in project : ~r.is_trending_daily /\ r.is_trending_monthly

\* C4: when a list is done, every processed repo that is in the table has the flag of
\* the list
TrendingStateSetForProcessed ==
  (pc \in ListPhases /\ i = LoopBound) =>
    \A k \in 1..Len(calls) :
       \A r \in RowsOf(calls[k].owner, calls[k].name) : r[TrendingStateOf(pc)]

\* the (owner, name) pairs of a list [owner1, repo1, owner2, repo2, ...]
PairsOf(list) == [k \in 1..(Len(list) \div 2) |-> <<list[2 * k - 1], list[2 * k]>>]

\* the pairs goThroughListOfRepos processed, in order
Processed == [k \in 1..Len(calls) |-> <<calls[k].owner, calls[k].name>>]

\* C5: when goThroughListOfRepos is done with a list it has processed exactly the
\* pairs of the list, each once, in list order
ProcessesWholeList ==
  (pc \in ListPhases /\ i = LoopBound) => Processed = PairsOf(repos)

\* C6: the stale-record purge removes exactly the rows that are not bookmarked and
\* were created more than 96 hours ago, or nothing when the delete fails, and the run
\* goes on; no other step of dbUpdater removes a row
PurgeDeletesExactlyStale ==
  [][/\ {r.id : r \in project} \subseteq {r.id : r \in project'} \/ pc = "delete"
     /\ pc = "delete" =>
          /\ pc' = "done"
          /\ project' \subseteq project
          /\ project \ project' =
               IF deleteFailed' THEN {}
               ELSE {r \in project : ~r.is_bookmarked /\ r.created_at < now - 96 * 60}
    ]_vars

\* C6 witness: the purge removed a row and left a bookmarked row older than 96 hours
PurgeDeletesExactlyStaleWitness ==
  /\ pc = "done" /\ ~deleteFailed /\ deleted # {}
  /\ \E r \in project : r.is_bookmarked /\ r.created_at < now - 96 * 60
  /\ \A r \in deleted : ~r.is_bookmarked /\ r.created_at < now - 96 * 60

(* ---------------------------------------------------------------------- *)
(* Data aggregation: calls made one after another                          *)
(* ---------------------------------------------------------------------- *)

\* number of calls explored
MaxDataCalls == 3

\* owners a caller can name: registered logins, a login in another case, and a login
\* GitHub does not know; names of repositories
DataOwners == {"acme", "bob", "Acme", "ghost"}
DataNames == {"app", "lib"}

\* bob/app as insertProject stores it, owned by the person with id 1
PersonRow ==
  [id |-> 2, name |-> "app", owning_organization |-> NoID, owning_person |-> 1,
   is_trending_daily |-> FALSE, is_trending_weekly |-> FALSE,
   is_trending_monthly |-> FALSE, is_bookmarked |-> FALSE, created_at |-> 0]

\* the datastore before the calls: empty, or with acme/app, or with acme/app and
\* bob/app
InitData ==
  /\ \/ project = {} /\ organization = {} /\ associated_person = {}
     \/ /\ project = {OldRow(FALSE, FALSE)}
        /\ organization = {[id |-> 1, login |-> "acme"]}
        /\ associated_person = {}
     \/ /\ project = {OldRow(FALSE, FALSE), PersonRow}
        /\ organization = {[id |-> 1, login |-> "acme"]}
        /\ associated_person = {[id |-> 1, login |-> "bob"]}
  /\ now = 0 /\ ticks = 0
  /\ pc = "idle" /\ repos = << >> /\ i = 0 /\ runs = 0
  /\ calls = << >> /\ setInRun = {} /\ purgedSome = FALSE /\ deleted = {}
  /\ deleteFailed = FALSE
  /\ BookmarksAtRest /\ FoundersAtRest /\ DataAtRest /\ ProcsAtRest

\* getProjectID with the project of a person looked up by owning_organization
getProjectIDByOrganizationOnly(proj, org, pers, name, owner) ==
  LET o == getOrganizationID(org, owner)
      p == IF o.id = NoID THEN getPersonID(pers, owner)
           ELSE [table |-> pers, id |-> NoID, github |-> FALSE]
      ownerID == IF o.id # NoID THEN o.id ELSE p.id
  IN [organization |-> o.table, associated_person |-> p.table,
      askedPerson |-> (o.id = NoID),
      id |-> IF ownerID = NoID THEN NoID
             ELSE FirstID({r \in proj : r.owning_organization = ownerID
                                        /\ r.name = name})]

\* getProjectID(name, owner): the owner tables after the call, the id of the project
\* (or NoID) and whether getPersonID was called
getProjectID(proj, org, pers, name, owner) ==
  LET o == getOrganizationID(org, owner) IN
  IF o.id = NoID
  THEN LET p == getPersonID(pers, owner) IN
       [organization |-> o.table, associated_person |-> p.table,
        askedPerson |-> TRUE,
        id |-> IF p.id = NoID THEN NoID
               ELSE FirstID({r \in proj : r.owning_person = p.id /\ r.name = name})]
  ELSE [organization |-> o.table, associated_person |-> pers,
        askedPerson |-> FALSE,
        id |-> FirstID({r \in proj : r.owning_organization = o.id /\ r.name = name})]

\* a call of getProjectID
callGetProjectID ==
  /\ nCalls < MaxDataCalls
  /\ nCalls' = nCalls + 1
  /\ \E name \in DataNames, owner \in DataOwners :
       LET r == getProjectID(project, organization, associated_person, name, owner)
       IN /\ organization' = r.organization
          /\ associated_person' = r.associated_person
          /\ lastCall' = [fn |-> "getProjectID", name |-> name, owner |-> owner,
                          result |-> r.id, askedPerson |-> r.askedPerson]
  /\ UNCHANGED <<project, founded_by, runVars, bookmarkVars, founderVars, procs>>

\* a call of getOrganizationID
callGetOrganizationID ==
  /\ nCalls < MaxDataCalls
  /\ nCalls' = nCalls + 1
  /\ \E owner \in DataOwners :
       LET r == getOrganizationID(organization, owner)
       IN /\ organization' = r.table
          /\ lastCall' = [fn |-> "getOrganizationID", owner |-> owner,
                          result |-> r.id, github |-> r.github]
  /\ UNCHANGED <<project, associated_person, founded_by, runVars, bookmarkVars,
                 founderVars, procs>>

\* a call of getPersonID
callGetPersonID ==
  /\ nCalls < MaxDataCalls
  /\ nCalls' = nCalls + 1
  /\ \E owner \in DataOwners :
       LET r == getPersonID(associated_person, owner)
       IN /\ associated_person' = r.table
          /\ lastCall' = [fn |-> "getPersonID", owner |-> owner,
                          result |-> r.id, github |-> r.github]
  /\ UNCHANGED <<project, organization, founded_by, runVars, bookmarkVars,
                 founderVars, procs>>

\* a call of repoIsAlreadyInDB; the select of the projects and the selects of the
\* owners may return no data
callRepoIsAlreadyInDB ==
  /\ nCalls < MaxDataCalls
  /\ nCalls' = nCalls + 1
  /\ \E name \in DataNames, owner \in DataOwners \cup {Undefined},
        queryOk \in BOOLEAN, ownerOk \in BOOLEAN :
       lastCall' = [fn |-> "repoIsAlreadyInDB", name |-> name, owner |-> owner,
                    queryOk |-> queryOk, ownerOk |-> ownerOk,
                    result |-> repoIsAlreadyInDB(project, organization,
                                 associated_person, name, owner, queryOk, ownerOk)]
  /\ UNCHANGED <<project, organization, associated_person, founded_by, runVars,
                 bookmarkVars, founderVars, procs>>

\* commit histories of the repositories whose founders are updated
FounderHistories == {<<Ann>>, <<Ann, Ben>>, <<Ben, Ann, Ann>>, <<NoUser>>}

RECURSIVE insertFoundersNoCheck(_, _, _, _)
\* the loop of updateProjectFounders without the select of the existing row
insertFoundersNoCheck(fs, pers, fb, projectID) ==
  IF fs = << >> THEN [associated_person |-> pers, founded_by |-> fb]
  ELSE LET founder == getPersonID(pers, Head(fs).login) IN
       IF founder.id = NoID
       THEN insertFoundersNoCheck(Tail(fs), founder.table, fb, projectID)
       ELSE insertFoundersNoCheck(Tail(fs), founder.table,
              Append(fb, [founder_id |-> founder.id, project_id |-> projectID]),
              projectID)

RECURSIVE insertFounders(_, _, _, _)
\* the loop of updateProjectFounders over the founders fs: a founder without a person
\* id is skipped, and so is one whose founded_by row exists; the others get a row
insertFounders(fs, pers, fb, projectID) ==
  IF fs = << >> THEN [associated_person |-> pers, founded_by |-> fb]
  ELSE LET founder == getPersonID(pers, Head(fs).login)
           alreadyExists ==
             \E k \in 1..Len(fb) :
                fb[k].founder_id = founder.id /\ fb[k].project_id = projectID
       IN IF founder.id = NoID \/ alreadyExists
          THEN insertFounders(Tail(fs), founder.table, fb, projectID)
          ELSE insertFounders(Tail(fs), founder.table,
                 Append(fb, [founder_id |-> founder.id, project_id |-> projectID]),
                 projectID)

\* updateProjectFounders(repoName, owner) for a repository with the commit history
\* hist: the tables after the call, the project id it found and whether
\* getRepoFounders threw
updateProjectFounders(proj, org, pers, fb, repoName, owner, hist) ==
  LET fetched == getRepoFounders(owner, repoName, hist) IN
  IF fetched.status = "threw"
  THEN [organization |-> org, associated_person |-> pers, founded_by |-> fb,
        projectID |-> NoID, threw |-> TRUE]
  ELSE LET p == getProjectID(proj, org, pers, repoName, owner) IN
       IF p.id = NoID
       THEN [organization |-> p.organization,
             associated_person |-> p.associated_person, founded_by |-> fb,
             projectID |-> NoID, threw |-> FALSE]
       ELSE LET r == insertFounders(fetched.value, p.associated_person, fb, p.id)
            IN [organization |-> p.organization,
                associated_person |-> r.associated_person,
                founded_by |-> r.founded_by, projectID |-> p.id, threw |-> FALSE]

\* a call of updateProjectFounders
callUpdateProjectFounders ==
  /\ nCalls < MaxDataCalls
  /\ nCalls' = nCalls + 1
  /\ \E name \in DataNames, owner \in DataOwners, hist \in FounderHistories :
       LET r == updateProjectFounders(project, organization, associated_person,
                                      founded_by, name, owner, hist)
       IN /\ organization' = r.organization
          /\ associated_person' = r.associated_person
          /\ founded_by' = r.founded_by
          /\ lastCall' = [fn |-> "updateProjectFounders", name |-> name,
                          owner |-> owner, history |-> hist,
                          projectID |-> r.projectID, threw |-> r.threw,
                          inserted |-> Len(r.founded_by) - Len(founded_by)]
  /\ UNCHANGED <<project, runVars, bookmarkVars, founderVars, procs>>

NextData ==
  \/ callGetProjectID
  \/ callGetOrganizationID
  \/ callGetPersonID
  \/ callRepoIsAlreadyInDB
  \/ callUpdateProjectFounders

\* calls of the data-aggregation functions, one after another
SpecData == InitData /\ [][NextData]_vars

(* ---------------------------------------------------------------------- *)
(* Properties of the data-aggregation functions                            *)
(* ---------------------------------------------------------------------- *)

\* C11: getProjectID uses the organization id, else the person id, else returns null:
\* with an organization id it returns the project of that owning_organization and
\* name and does not call getPersonID; without one it returns the project of the
\* owning_person getPersonID yields, or null when that yields none. An id it returns
\* is the id of a project row of that name whose owner has that login.
ProjectIDByOrganizationElsePerson ==
  [][lastCall'.fn = "getProjectID" =>
       LET name == lastCall'.name
           owner == lastCall'.owner
           result == lastCall'.result
           o == getOrganizationID(organization, owner)
           p == getPersonID(associated_person, owner)
           ofOrganization == {r \in project : r.owning_organization = o.id
                                              /\ r.name = name}
           ofPerson == {r \in project : r.owning_person = p.id /\ r.name = name}
       IN /\ o.id # NoID =>
               /\ ~lastCall'.askedPerson
               /\ associated_person' = associated_person
               /\ IF ofOrganization = {} THEN result = NoID
                  ELSE result \in {r.id : r \in ofOrganization}
          /\ o.id = NoID =>
               /\ lastCall'.askedPerson
               /\ IF p.id = NoID \/ ofPerson = {} THEN result = NoID
                  ELSE result \in {r.id : r \in ofPerson}
          /\ result # NoID =>
               \E r \in project :
                  /\ r.id = result /\ r.name = name
                  /\ OwnerLogin(r, organization', associated_person') = owner
     ]_vars

\* C11 witness: no organization bob exists, so the project of the person bob was
\* returned, while a project of the same name belongs to an organization
ProjectIDByOrganizationElsePersonWitness ==
  /\ lastCall.fn = "getProjectID"
  /\ lastCall.owner = "bob" /\ lastCall.askedPerson
  /\ lastCall.result # NoID
  /\ \E r \in project : r.name = lastCall.name /\ r.owning_organization # NoID

\* the answer of the last call of repoIsAlreadyInDB is right about the project table
AnswersWhetherRowExists ==
  lastCall'.result <=>
     \E r \in project :
        /\ r.name = lastCall'.name
        /\ OwnerLogin(r, organization, associated_person) = lastCall'.owner

\* a call of repoIsAlreadyInDB writes to no table
WritesNothing ==
  UNCHANGED <<project, organization, associated_person, founded_by, bookmark>>

GetOrCreateCall(t, tAfter, known) ==
  LET owner == lastCall'.owner
      result == lastCall'.result
      existing == {r \in t : r.login = owner}
  IN /\ existing # {} =>
          /\ result \in {r.id : r \in existing}
          /\ ~lastCall'.github /\ tAfter = t
     /\ existing = {} =>
          /\ lastCall'.github
          /\ ~known => (result = NoID /\ tAfter = t)
          /\ known =>
               /\ t \subseteq tAfter /\ Cardinality(tAfter \ t) = 1
               /\ IF \E r \in tAfter : r.login = owner
                  THEN result \in {r.id : r \in {x \in tAfter : x.login = owner}}
                  ELSE result = NoID

\* every call of getOrganizationID and of getPersonID is such a call
GetOrCreateContract ==
  [][/\ lastCall'.fn = "getOrganizationID" =>
          GetOrCreateCall(organization, organization',
                          getOrganizationInfo(lastCall'.owner) # Null)
     /\ lastCall'.fn = "getPersonID" =>
          GetOrCreateCall(associated_person, associated_person',
                          getUserInfo(lastCall'.owner) # Null)
    ]_vars

\* C13: getOrganizationID and getPersonID are get-or-create, so after any calls made
\* one after another the organization table and the associated_person table each
\* hold at most one row per login.
AtMostOneRowPerLogin ==
  /\ \A a, b \in organization : a.login = b.login => a = b
  /\ \A a, b \in associated_person : a.login = b.login => a = b

\* the rows a step appends to founded_by
NewFoundedBy == SubSeq(founded_by', Len(founded_by) + 1, Len(founded_by'))

\* founded_by holds no pair (founder_id, project_id) twice
AtMostOneRowPerFounderAndProject ==
  \A j, k \in 1..Len(founded_by) : founded_by[j] = founded_by[k] => j = k

\* a call of updateProjectFounders keeps the rows of founded_by; a row it inserts is
\* for the project it found and a person whose id it obtained, its pair was in no
\* row before and is inserted once; without a project id it inserts nothing
InsertsOnlyMissingPairs ==
  lastCall'.fn = "updateProjectFounders" =>
    /\ Len(founded_by') >= Len(founded_by)
    /\ SubSeq(founded_by', 1, Len(founded_by)) = founded_by
    /\ lastCall'.projectID = NoID => founded_by' = founded_by
    /\ \A k \in 1..Len(NewFoundedBy) :
         /\ NewFoundedBy[k].project_id = lastCall'.projectID
         /\ \E f \in associated_person' :
               /\ f.id = NewFoundedBy[k].founder_id
               /\ \E c \in 1..Len(lastCall'.history) :
                     lastCall'.history[c].login = f.login
         /\ \A j \in 1..Len(founded_by) : founded_by[j] # NewFoundedBy[k]
         /\ \A j \in 1..Len(NewFoundedBy) : NewFoundedBy[j] = NewFoundedBy[k] => j = k

\* the same call made again inserts nothing
SecondCallInsertsNothing ==
  (/\ lastCall.fn = "updateProjectFounders"
   /\ lastCall'.fn = "updateProjectFounders"
   /\ lastCall'.name = lastCall.name /\ lastCall'.owner = lastCall.owner
   /\ lastCall'.history = lastCall.history)
  => founded_by' = founded_by

\* C14: updateProjectFounders inserts a founded_by row (founder_id, project_id) only
\* when no row with that pair exists, and nothing when the project id is not found or
\* a founder's person id cannot be obtained; the same call made again changes nothing
\* in founded_by; after any calls made one after another founded_by holds at most one
\* row per pair.
FoundersInsertedOnce ==
  /\ []AtMostOneRowPerFounderAndProject
  /\ [][InsertsOnlyMissingPairs /\ SecondCallInsertsNothing]_vars

\* C14 witness: a call that found the project and whose founder ann has a person id
\* inserted nothing, because the row of that pair was there
FoundersInsertedOnceWitness ==
  /\ lastCall.fn = "updateProjectFounders"
  /\ lastCall.projectID # NoID /\ lastCall.inserted = 0
  /\ \E c \in 1..Len(lastCall.history) : lastCall.history[c] = Ann
  /\ \E k \in 1..Len(founded_by) :
        /\ founded_by[k].project_id = lastCall.projectID
        /\ \E f \in associated_person :
              f.id = founded_by[k].founder_id /\ f.login = "ann"

(* ---------------------------------------------------------------------- *)
(* Two invocations of the pipeline at the same time                        *)
(* ---------------------------------------------------------------------- *)

\* number of repositories the two invocations process in all
MaxInvocations == 3

\* the invocations: two runs of dbUpdater, each awaiting its calls one by one
Procs == {1, 2}

\* the datastore is empty and no invocation is under way
InitConc ==
  /\ UpdaterAtRest /\ BookmarksAtRest /\ FoundersAtRest /\ DataAtRest
  /\ ProcsAtRest

\* an iteration of goThroughListOfRepos starts for a repository of a trending list
beginRepo(p) ==
  /\ procs[p].pc = "idle"
  /\ nCalls < MaxInvocations
  /\ nCalls' = nCalls + 1
  /\ \E repo \in GitHubRepos, trendingState \in TrendingStates :
       procs' = [procs EXCEPT ![p] = [pc |-> "check", owner |-> repo[1],
                                      name |-> repo[2],
                                      trendingState |-> trendingState,
                                      inDB |-> FALSE]]
  /\ UNCHANGED <<project, organization, associated_person, founded_by, lastCall,
                 runVars, bookmarkVars, founderVars>>

\* await repoIsAlreadyInDB(name, owner)
checkRepo(p) ==
  /\ procs[p].pc = "check"
  /\ procs' = [procs EXCEPT
                 ![p].pc = "act",
                 ![p].inDB = repoIsAlreadyInDB(project, organization,
                               associated_person, procs[p].name, procs[p].owner,
                               TRUE, TRUE)]
  /\ UNCHANGED <<project, organization, associated_person, dataVars, runVars,
                 bookmarkVars, founderVars>>

\* await updateProjectTrendingState(...) or await insertProject(...), on the answer
\* the check gave
actOnRepo(p) ==
  /\ procs[p].pc = "act"
  /\ IF procs[p].inDB
     THEN /\ project' = updateProjectTrendingState(project, organization,
                           associated_person, procs[p].name, procs[p].owner,
                           procs[p].trendingState)
          /\ UNCHANGED <<organization, associated_person>>
     ELSE LET after == insertProject(project, organization, associated_person,
                                     procs[p].name, procs[p].owner, now)
          IN /\ project' = after.project
             /\ organization' = after.organization
             /\ associated_person' = after.associated_person
  /\ procs' = [procs EXCEPT ![p] = Idle]
  /\ UNCHANGED <<dataVars, runVars, bookmarkVars, founderVars>>

NextConc == \E p \in Procs : beginRepo(p) \/ checkRepo(p) \/ actOnRepo(p)

\* two runs of dbUpdater whose awaited calls interleave
SpecConc == InitConc /\ [][NextConc]_vars

\* C15: uniqueness by name and owner also holds when two invocations for the same
\* name and owner run at the same time: the check repoIsAlreadyInDB and the following
\* insertProject act as one step, so no interleaving reaches a state with two project
\* rows of the same name and owner.
NoDuplicateUnderInterleaving ==
  \A repo \in GitHubRepos : Cardinality(RowsOf(repo[1], repo[2])) <= 1

(* ---------------------------------------------------------------------- *)
(* Properties of the bookmark mutations                                    *)
(* ---------------------------------------------------------------------- *)

AtMostOneBookmark ==
  \A j \in 1..Len(bookmark), k \in 1..Len(bookmark) :
     (bookmark[j].user_id = bookmark[k].user_id
      /\ bookmark[j].project_id = bookmark[k].project_id) => j = k

\* C7: addBookmark answers 409 and inserts nothing when the user has a bookmark of the
\* project; otherwise it calls insertBookmark once and answers 201, or the insertion
\* error. There is at most one bookmark per user and project, and a later addBookmark
\* leaves its category as it is.
AddBookmarkContract ==
  /\ []AtMostOneBookmark
  /\ [][(request'.op = "addBookmark" /\ request'.user # Null) =>
          LET exists == bookmarkIsAlreadyInDB(bookmark, request'.user,
                                              request'.projectID)
              row == [user_id |-> request'.user, project_id |-> request'.projectID,
                      category |-> request'.category]
              inserts == {k \in 1..Len(dbCalls') : dbCalls'[k] = "insertBookmark"}
          IN /\ exists => /\ response'.code = "409"
                          /\ bookmark' = bookmark
                          /\ inserts = {}
             /\ ~exists => Cardinality(inserts) = 1
             /\ (~exists /\ ~request'.error) => /\ response' = [code |-> "201"]
                                                /\ bookmark' = Append(bookmark, row)
             /\ (~exists /\ request'.error) => /\ response' = PostgrestError
                                               /\ bookmark' = bookmark
       ]_vars

\* C7 witness: addBookmark with another category was answered 409 and the bookmark
\* of the user and project still has its category
AddBookmarkContractWitness ==
  /\ request.op = "addBookmark" /\ response.code = "409"
  /\ \E k \in 1..Len(bookmark) :
       /\ bookmark[k].user_id = request.user
       /\ bookmark[k].project_id = request.projectID
       /\ bookmark[k].category # request.category

\* C8: a mutation called without a user is answered BAD_USER_RESPONSE, calls no
\* data-access function and leaves the bookmark table as it is
NoUserContract ==
  /\ []((request.op # "none" /\ request.user = Null) =>
          (response = BAD_USER_RESPONSE /\ response.code = "400"
           /\ dbCalls = << >>))
  /\ [][(request'.op # "none" /\ request'.user = Null) => bookmark' = bookmark]_vars

\* C8 witness: renameBookmarkCategory without a user was answered 400 while a
\* bookmark of the old category is in the table
NoUserContractWitness ==
  /\ request.op = "renameBookmarkCategory" /\ request.user = Null
  /\ request.category # request.oldCategory
  /\ response.code = "400"
  /\ \E k \in 1..Len(bookmark) : bookmark[k].category = request.oldCategory

\* C9: deleteBookmark and editBookmarkCategory of a valid user answer
\* BOOKMARK_DOES_NOT_EXIST_RESPONSE and change nothing when the user has no bookmark
\* of the project; otherwise they delete or edit the bookmarks of that user and
\* project only and answer 204, or the error of the datastore
DeleteEditContract ==
  [][(request'.op \in {"deleteBookmark", "editBookmarkCategory"}
      /\ request'.user # Null) =>
       LET u == request'.user
           p == request'.projectID
           Mine(row) == row.user_id = u /\ row.project_id = p
           Others(row) == ~Mine(row)
           exists == \E k \in 1..Len(bookmark) : Mine(bookmark[k])
       IN /\ ~exists => /\ response' = BOOKMARK_DOES_NOT_EXIST_RESPONSE
                        /\ response'.code = "409"
                        /\ bookmark' = bookmark
          /\ (exists /\ request'.error) => /\ response' = PostgrestError
                                           /\ bookmark' = bookmark
          /\ (exists /\ ~request'.error) =>
               /\ response' = [code |-> "204"]
               /\ SelectSeq(bookmark', Others) = SelectSeq(bookmark, Others)
               /\ IF request'.op = "deleteBookmark"
                  THEN SelectSeq(bookmark', Mine) = << >>
                  ELSE /\ Len(bookmark') = Len(bookmark)
                       /\ \A k \in 1..Len(bookmark') :
                            Mine(bookmark'[k]) =>
                              bookmark'[k].category = request'.category
     ]_vars

\* C9 witness: a bookmark was deleted with 204 and the bookmark of the other user of
\* the same project is still there
DeleteEditContractWitness ==
  /\ request.op = "deleteBookmark" /\ request.user # Null
  /\ response.code = "204"
  /\ ~bookmarkIsAlreadyInDB(bookmark, request.user, request.projectID)
  /\ \E k \in 1..Len(bookmark) : bookmark[k].project_id = request.projectID

\* the bookmark mutations, one request after another
InitBookmarks ==
  UpdaterAtRest /\ BookmarksAtRest /\ FoundersAtRest /\ DataAtRest /\ ProcsAtRest
SpecBookmarks == InitBookmarks /\ [][NextBookmarks]_vars

(* ---------------------------------------------------------------------- *)
(* Properties of getRepoFounders                                           *)
(* ---------------------------------------------------------------------- *)

\* calls of getRepoFounders for any history and arguments
SpecFounders == InitFounders /\ [][NextFounders]_vars

\* the logins of the authors of the commits GitHub returns
ReturnedLogins ==
  {history[k].login : k \in 1..(IF Len(history) < 5 THEN Len(history) ELSE 5)}

\* where a login first appears in the history
FirstCommitOf(login) ==
  CHOOSE k \in 1..Len(history) :
    history[k].login = login /\ \A j \in 1..(k - 1) : history[j].login # login

\* C10: getRepoFounders throws when owner or name is empty; what it returns holds
\* each login of the at most five returned commits once, in order of first
\* appearance, so at most five entries; it returns when the repository has commits
\* and each returned commit has a user
FoundersDistinctByLogin ==
  founders # NotCalled =>
    /\ (args.owner = "" \/ args.name = "") => founders.status = "threw"
    /\ (args.owner # "" /\ args.name # "" /\ history # << >>
        /\ Null \notin ReturnedLogins) => founders.status = "returned"
    /\ founders.status = "returned" =>
         LET f == founders.value IN
         /\ \A j \in 1..Len(f), k \in 1..Len(f) : f[j].login = f[k].login => j = k
         /\ {f[k].login : k \in 1..Len(f)} = ReturnedLogins
         /\ \A j \in 1..Len(f), k \in 1..Len(f) :
              j < k => FirstCommitOf(f[j].login) < FirstCommitOf(f[k].login)
         /\ Len(f) <= 5

\* C10 witness: a history of more than five commits in which an author committed
\* twice was reduced to two founders
FoundersDistinctByLoginWitness ==
  /\ founders.status = "returned"
  /\ Len(history) > 5
  /\ history[1] = history[3] /\ history[2] # history[1]
  /\ Len(founders.value) = 2

====
